---- MODULE Spec2Model ----
(***************************************************************************)
(* A model of simple_mood_app.py: the mood classifiers, the helpful-hint   *)
(* selector, the AI-suggestion call with its debounce cache, and the       *)
(* mood_entries table written by the check-in submission, together with    *)
(* the login gate, the theme picker and the chat tab of the authenticated  *)
(* script, the check-in page of main(), and the streak computation.        *)
(*                                                                         *)
(* Texts are sequences of string tokens (<<>> is the empty string ""), so  *)
(* that every text the program builds compares with every other.           *)
(***************************************************************************)
EXTENDS Integers, Sequences, FiniteSets, TLC

VARIABLES
    \* the function calls of SpecFn
    probe,        \* the (score, note) pair the function calls are applied to
    first_hint,   \* what the first get_helpful_hint(probe) call returned
    ret_hint,     \* the last get_helpful_hint call: its arguments and result
    ret_info,     \* the last classifier call: function, argument, result
    streak_run,   \* the streak computation: its data, its locals and where it stands
    \* the deployment
    mood_entries, \* the rows of the Supabase table mood_entries
    next_id,      \* the id the table gives the next inserted row
    now,          \* the clock: time.time() and datetime.now(), in seconds
    api_key,      \* get_global_openai_key(): "" when no key is configured
    app,          \* which program a session runs: the authenticated script or main()
    \* one browser session each
    user_email,            \* st.user.email
    mood,                  \* the slider's value
    mood_value,            \* st.session_state.mood_value
    note,                  \* the text area's value
    selected_date,         \* the date input's value
    selected_tags,         \* st.session_state.selected_tags
    last_ai_call,          \* st.session_state.last_ai_call
    current_ai_suggestion, \* st.session_state.current_ai_suggestion (<<>> while unset)
    ai_request,            \* the arguments of the call that produced current_ai_suggestion
    hint,                  \* the hint the last run displayed
    ai_suggestion,         \* the suggestion the last run displayed
    ai_cached,             \* whether the last run took the suggestion from the session
    pc,                    \* where the session's run stands in save_data_to_supabase
    pending,               \* the entry being saved and what the existence select found
    save_result,           \* what the save call of the session's run returned ("none": no call)
    response,              \* the write that call made: "update", "insert" or "none"
    manual_tags,           \* the text of the additional-tags field
    manual_tags_value,     \* the value argument the script's field was last shown with
    request,               \* the provider request main()'s submission has in flight
    chat_history,          \* st.session_state.chat_history
    current_theme,         \* st.session_state.current_theme
    messages,              \* what the session's last handler reported (st.success, st.error, ...)
    \* the deployment, continued
    user_configs,          \* the rows of the Supabase table user_configs
    accessed_as            \* the user_email values the tables were read or written under

fnvars == <<probe, first_hint, ret_hint, ret_info, streak_run>>

storevars == <<mood_entries, next_id>>

widgetvars == <<mood, mood_value, note, selected_date, selected_tags>>

aivars == <<last_ai_call, current_ai_suggestion, ai_request, hint, ai_suggestion, ai_cached>>

savevars == <<pc, pending, save_result, response>>

mainvars == <<manual_tags, manual_tags_value, request>>

chatvars == <<chat_history>>

themevars == <<current_theme, user_configs>>

runvars == <<messages, accessed_as>>

appvars == <<storevars, now, api_key, app, user_email, widgetvars, aivars, savevars,
             mainvars, chatvars, themevars, runvars>>

vars == <<fnvars, appvars>>

----------------------------------------------------------------------------
(* Bounds and program constants *)

\* st.slider(..., 0, 10, 5)
SliderMin == 0
SliderMax == 10
SliderDefault == 5

\* how far outside the slider's range the classifiers are called
ProbeMargin == 1

\* the longest note, in words
MaxNoteLen == 2

\* if current_time - st.session_state.last_ai_call > 2
DebounceSeconds == 2

\* the longest chat history, in messages
MaxChat == 3

\* the longest list of entries the streak is computed for
MaxEntries == 3

\* how many seconds the clock runs on after the first run
Horizon == 3

\* the day number of today: the date input offers the days 1..Today
Today == 2

Scores == SliderMin..SliderMax

\* time.time() is far beyond the debounce window when a session starts
Epoch == DebounceSeconds + 1

MaxTime == Epoch + Horizon

Dates == 1..Today

Sessions == {"s1", "s2"}

Users == {"ann@example.org", "bob@example.org"}

\* the quick tags and the slider positions, notes and keys the runs use
TagSample == {"happy"}
MoodSample == {SliderDefault, SliderMax - 1}
NoteSample == {<<>>, <<"Panicky">>}
ConfiguredKey == "sk-configured"

\* where the slider's handle is dragged to: onto the track, or past its end
DragSample == {SliderDefault, SliderMax + 1}

\* the theme a session starts with, and the themes the selectbox is moved between
DefaultTheme == "Ocean"
Themes == {DefaultTheme, "Custom"}

\* what is typed into main()'s additional-tags field
ManualSample == {<<>>, <<" ", "happy", ",", " ">>}

\* what is typed into the chat input
PromptSample == {<<"hello">>}

\* what the handlers report
ChatErrorStatus == "AI temporarily unavailable (Error 500)"
ChatErrorRaised == "Chat error"
EmailWarning == "Please enter your email in the sidebar to save your mood data."
LoginScreen == "This app is private."
SuccessMessage == "Check-in saved"
FailedMessage == "Failed to save check-in. Please try again."
SaveErrorMessage == "Error saving data to Supabase"
SaveErrorMain == "Error saving data"

ProbeScores == (SliderMin - ProbeMargin)..(SliderMax + ProbeMargin)

\* the words notes are written with: a capitalised word that holds a keyword
\* of the first group as a substring, a keyword of the second group, and a
\* phrase that holds no keyword
NoteWords == {"Panicky", "numb", "end it all"}

Notes == UNION {[1..n -> NoteWords] : n \in 0..MaxNoteLen}

----------------------------------------------------------------------------
(* Text helpers *)

\* str.lower() on one word of the vocabulary
Lower(w) == IF w = "Panicky" THEN "panicky" ELSE w

\* note_lower = (note_text or "").lower()
NoteLower(note_text) == [i \in DOMAIN note_text |-> Lower(note_text[i])]

\* the keywords that occur as substrings of a (lower-cased) word
KeywordsWithin(w) ==
    CASE w = "panicky" -> {"panic"}
      [] w = "numb" -> {"numb"}
      [] OTHER -> {}

\* Python's  word in note_lower  (a substring test)
WordIn(word, note_lower) ==
    \E i \in DOMAIN note_lower : word \in KeywordsWithin(note_lower[i])

\* any(word in note_lower for word in words)
AnyWordIn(words, note_lower) == \E word \in words : WordIn(word, note_lower)

----------------------------------------------------------------------------
(* Mood helper functions *)

\* get_mood_emoji_and_label of the authenticated script: (emoji, label)
get_mood_emoji_and_label(mood_score) ==
    IF mood_score <= 1 THEN [emoji |-> "cry", label |-> "Very Low"]
    ELSE IF mood_score <= 3 THEN [emoji |-> "pensive", label |-> "Low"]
    ELSE IF mood_score <= 4 THEN [emoji |-> "neutral", label |-> "Below Average"]
    ELSE IF mood_score <= 6 THEN [emoji |-> "slight_smile", label |-> "Okay"]
    ELSE IF mood_score <= 8 THEN [emoji |-> "blush", label |-> "Good"]
    ELSE [emoji |-> "smile", label |-> "Great"]

\* a slip of the comparison at the first boundary
get_mood_info_strict(mood_score) ==
    IF mood_score < 2 THEN [emoji |-> "cry", label |-> "Very Low"]
    ELSE IF mood_score <= 4 THEN [emoji |-> "pensive", label |-> "Low"]
    ELSE IF mood_score <= 6 THEN [emoji |-> "neutral", label |-> "Neutral"]
    ELSE IF mood_score <= 8 THEN [emoji |-> "blush", label |-> "Good"]
    ELSE [emoji |-> "smile", label |-> "Great"]

\* get_mood_info of the simplified app: (emoji, label); the colour it also
\* returns is the theme's primary colour and does not depend on the score
get_mood_info(mood_score) ==
    IF mood_score <= 2 THEN [emoji |-> "cry", label |-> "Very Low"]
    ELSE IF mood_score <= 4 THEN [emoji |-> "pensive", label |-> "Low"]
    ELSE IF mood_score <= 6 THEN [emoji |-> "neutral", label |-> "Neutral"]
    ELSE IF mood_score <= 8 THEN [emoji |-> "blush", label |-> "Good"]
    ELSE [emoji |-> "smile", label |-> "Great"]

HintHeavy == <<"When everything feels heavy, start with the smallest possible anchor.">>
HintLowEnergy == <<"When energy is low, momentum comes from tiny wins.">>
HintPositive == <<"Great to see some positive energy! Savor this good moment for 20 seconds.">>

HintGroup1 == {"overwhelmed", "anxious", "panic", "fear"}
HintGroup2 == {"stuck", "flat", "empty", "numb"}

\* the two keyword tests in the other order
get_helpful_hint_swapped(score, note_text) ==
    LET note_lower == NoteLower(note_text)
    IN  IF score <= 5 \/ AnyWordIn(HintGroup2, note_lower) THEN HintLowEnergy
        ELSE IF score <= 3 \/ AnyWordIn(HintGroup1, note_lower) THEN HintHeavy
        ELSE HintPositive

\* the first threshold one lower
get_helpful_hint_low2(score, note_text) ==
    LET note_lower == NoteLower(note_text)
    IN  IF score <= 2 \/ AnyWordIn(HintGroup1, note_lower) THEN HintHeavy
        ELSE IF score <= 5 \/ AnyWordIn(HintGroup2, note_lower) THEN HintLowEnergy
        ELSE HintPositive

\* the result of the call before kept and returned again for the same score,
\* whatever the note
get_helpful_hint_cached(score, note_text) ==
    LET note_lower == NoteLower(note_text)
    IN  IF ret_hint.called /\ ret_hint.score = score THEN ret_hint.text
        ELSE IF score <= 3 \/ AnyWordIn(HintGroup1, note_lower) THEN HintHeavy
        ELSE IF score <= 5 \/ AnyWordIn(HintGroup2, note_lower) THEN HintLowEnergy
        ELSE HintPositive

get_helpful_hint(score, note_text) ==
    LET note_lower == NoteLower(note_text)
    IN  IF score <= 3 \/ AnyWordIn(HintGroup1, note_lower) THEN HintHeavy
        ELSE IF score <= 5 \/ AnyWordIn(HintGroup2, note_lower) THEN HintLowEnergy
        ELSE HintPositive

----------------------------------------------------------------------------
(* The AI suggestion *)

\* what the provider's endpoint may do with one request: answer 200, answer
\* another status, or make requests.post raise (connection error, or no
\* answer within timeout=30)
ProviderOutcomes == {"200", "500", "raise"}

\* the system prompt by mood level
SystemPrompt(mood_score) ==
    IF mood_score <= 2 THEN <<"You are a gentle, supportive counselor.">>
    ELSE IF mood_score <= 4 THEN <<"You are an encouraging coach.">>
    ELSE IF mood_score <= 6 THEN <<"You are an upbeat coach.">>
    ELSE <<"You are an enthusiastic coach.">>

\* f"Someone is feeling {mood_score}/10 today. {f'They shared: {note_text}' if note_text else ''} ..."
UserPrompt(mood_score, note_text) ==
    <<"Someone is feeling ", ToString(mood_score), "/10 today. ">>
    \o (IF note_text # <<>> THEN <<"They shared: ">> \o note_text ELSE <<>>)
    \o <<" Please provide a supportive response.">>

\* the content of a 200 answer: the model's text for the two prompts, with
\* the white space such answers come with
ProviderContent(system_prompt, user_prompt) ==
    <<" ", "Reply as: ">> \o system_prompt \o <<"To: ">> \o user_prompt \o <<" ">>

RECURSIVE LStrip(_)
LStrip(text) ==
    IF text # <<>> /\ Head(text) = " " THEN LStrip(Tail(text)) ELSE text

RECURSIVE RStrip(_)
RStrip(text) ==
    IF text # <<>> /\ text[Len(text)] = " "
    THEN RStrip(SubSeq(text, 1, Len(text) - 1))
    ELSE text

\* str.strip()
Strip(text) == RStrip(LStrip(text))

\* get_ai_suggestion(mood_score, note_text, api_key) of the authenticated
\* script, with what the provider did as a fourth argument
get_ai_suggestion(mood_score, note_text, key, outcome) ==
    IF key = "" THEN <<>>
    ELSE IF outcome = "200"
         THEN Strip(ProviderContent(SystemPrompt(mood_score), UserPrompt(mood_score, note_text)))
         ELSE IF outcome = "500"
              THEN <<"AI temporarily unavailable (Error ", "500", ")">>
              ELSE <<"AI temporarily unavailable: ", "Read timed out.", "...">>

\* what the provider may do with a request of main()'s get_ai_suggestion:
\* one of the outcomes above, or no answer at all
ProviderReplies == ProviderOutcomes \cup {"silent"}

\* context of main()'s get_ai_suggestion
Context(mood_score, note_text, tags) ==
    <<"Mood: ", ToString(mood_score), "/10 (", get_mood_info(mood_score).label, ")">>
    \o (IF note_text # <<>> THEN <<"Note: ">> \o note_text ELSE <<>>)
    \o (IF tags # <<>> THEN <<"Tags: ">> \o tags ELSE <<>>)

\* get_ai_suggestion(mood_score, note_text, tags) of main(), lines 1597-1645,
\* with the key it found and what the provider did as further arguments; it
\* is applied only once requests.post has returned or raised
get_ai_suggestion_main(mood_score, note_text, tags, key, reply) ==
    IF key = ""
    THEN <<"Add your OpenAI API key in the sidebar to get personalized AI suggestions!">>
    ELSE IF reply = "200"
         THEN Strip(ProviderContent(<<>>, Context(mood_score, note_text, tags)))
         ELSE IF reply = "500"
              THEN <<"Unable to get AI suggestion at the moment. Try again later!">>
              ELSE <<"AI suggestion unavailable: ", "Connection refused">>

----------------------------------------------------------------------------
(* The mood_entries table *)

\* date.strftime('%Y-%m-%d')
DateStr(d) == "2026-11-0" \o ToString(d)

\* datetime.now().isoformat()
IsoFormat(t) == "2026-11-0" \o ToString(Today) \o "T09:00:0" \o ToString(t)

\* the quick tags the runs use, in the order sorted() gives them
TagOrder == <<"happy">>

\* sorted(tags)
Sorted(tags) == SelectSeq(TagOrder, LAMBDA t : t \in tags)

\* sep.join(items)
RECURSIVE Join(_, _)
Join(sep, items) ==
    IF Len(items) <= 1 THEN items
    ELSE <<Head(items)>> \o sep \o Join(sep, Tail(items))

\* ", ".join(sorted(st.session_state.selected_tags)): the value of the
\* additional-tags field while nobody types into it
ManualTagsDefault(tags) == Join(<<",", " ">>, Sorted(tags))

\* text.split(","): the pieces between the commas
RECURSIVE Split(_)
Split(text) ==
    IF \A i \in 1..Len(text) : text[i] # "," THEN <<text>>
    ELSE LET i == CHOOSE k \in 1..Len(text) :
                      text[k] = "," /\ \A j \in 1..(k - 1) : text[j] # ","
         IN  <<SubSeq(text, 1, i - 1)>> \o Split(SubSeq(text, i + 1, Len(text)))

\* [tag.strip() for tag in manual_tags.split(",") if tag.strip()]; a label
\* is typed as one token
ManualTagList(text) ==
    LET pieces == Split(text)
        stripped == [i \in 1..Len(pieces) |-> Strip(pieces[i])]
        kept == SelectSeq(stripped, LAMBDA t : t # <<>>)
    IN  [i \in 1..Len(kept) |-> kept[i][1]]

\* all_tags of render_main_content: list(selected_tags) extended by the
\* labels typed, when something is typed
AllTags(tags, text) ==
    Sorted(tags) \o (IF text # <<>> THEN ManualTagList(text) ELSE <<>>)

\* supabase_entry of save_data_to_supabase
SupabaseEntry(user, entry_data) ==
    [user_email |-> user,
     date |-> DateStr(entry_data.date),
     mood_score |-> entry_data.mood_score,
     note |-> entry_data.note,
     tags |-> entry_data.tags,
     ai_suggestion |-> entry_data.ai_suggestion,
     helpful_hint |-> entry_data.helpful_hint,
     timestamp |-> entry_data.timestamp]

Row(id, e) ==
    [id |-> id, user_email |-> e.user_email, date |-> e.date,
     mood_score |-> e.mood_score, note |-> e.note, tags |-> e.tags,
     ai_suggestion |-> e.ai_suggestion, helpful_hint |-> e.helpful_hint,
     timestamp |-> e.timestamp]

\* .select("id").eq("user_email", user_email).eq("date", date).execute().data
SelectExisting(rows, user, date_str) ==
    {r.id : r \in {x \in rows : x.user_email = user /\ x.date = date_str}}

\* an update that is filtered by the user only
UpdateRowsOfUser(rows, e) ==
    {IF r.user_email = e.user_email THEN Row(r.id, e) ELSE r : r \in rows}

\* an update that leaves the stored score as it was
UpdateRowsKeepScore(rows, e) ==
    {IF r.user_email = e.user_email /\ r.date = e.date
     THEN [Row(r.id, e) EXCEPT !.mood_score = r.mood_score] ELSE r : r \in rows}

\* .update(supabase_entry).eq("user_email", user_email).eq("date", date)
UpdateRows(rows, e) ==
    {IF r.user_email = e.user_email /\ r.date = e.date THEN Row(r.id, e) ELSE r : r \in rows}

\* .insert(supabase_entry)
InsertRow(rows, id, e) == rows \cup {Row(id, e)}

----------------------------------------------------------------------------
(* The state a deployment starts in *)

NoRequest == [made |-> FALSE, score |-> SliderDefault, note |-> <<>>, outcome |-> "none",
              at |-> 0]
NoProviderRequest == [active |-> FALSE, timeout |-> "None", reply |-> "none"]
NoPending == [entry |-> SupabaseEntry("", [date |-> Today, mood_score |-> SliderDefault,
                                            note |-> <<>>, tags |-> <<>>,
                                            ai_suggestion |-> <<>>, helpful_hint |-> <<>>,
                                            timestamp |-> ""]),
              existing |-> FALSE]

\* lines 606-616 and the widgets' defaults: no row stored, every session at
\* its first run
AppInitial(key, users) ==
    /\ mood_entries = {}
    /\ next_id = 1
    /\ now = Epoch
    /\ api_key = key
    /\ user_email = users
    /\ mood = [s \in Sessions |-> SliderDefault]
    /\ mood_value = [s \in Sessions |-> SliderDefault]
    /\ note = [s \in Sessions |-> <<>>]
    /\ selected_date = [s \in Sessions |-> Today]
    /\ selected_tags = [s \in Sessions |-> {}]
    /\ last_ai_call = [s \in Sessions |-> 0]
    /\ current_ai_suggestion = [s \in Sessions |-> <<>>]
    /\ ai_request = [s \in Sessions |-> NoRequest]
    /\ hint = [s \in Sessions |-> <<>>]
    /\ ai_suggestion = [s \in Sessions |-> <<>>]
    /\ ai_cached = [s \in Sessions |-> FALSE]
    /\ pc = [s \in Sessions |-> "idle"]
    /\ pending = [s \in Sessions |-> NoPending]
    /\ save_result = [s \in Sessions |-> "none"]
    /\ response = [s \in Sessions |-> "none"]
    /\ manual_tags = [s \in Sessions |-> <<>>]
    /\ manual_tags_value = [s \in Sessions |-> <<>>]
    /\ request = [s \in Sessions |-> NoProviderRequest]
    /\ chat_history = [s \in Sessions |-> <<>>]
    /\ current_theme = [s \in Sessions |-> DefaultTheme]
    /\ messages = [s \in Sessions |-> {}]
    /\ user_configs = {}
    /\ accessed_as = {}

\* no streak is being computed
NoStreakRun == [pc |-> "none", data |-> <<>>, dates |-> <<>>, streak |-> 0,
                current_date |-> Today]

FnInitial ==
    /\ streak_run = NoStreakRun
    /\ probe = [score |-> SliderDefault, note |-> <<>>]
    /\ first_hint = [called |-> FALSE, text |-> <<>>]
    /\ ret_hint = [called |-> FALSE, score |-> SliderDefault, note |-> <<>>, text |-> <<>>]
    /\ ret_info = [called |-> FALSE, fn |-> "none", score |-> SliderDefault,
                   outcome |-> "none", emoji |-> "none", label |-> "none"]

----------------------------------------------------------------------------
(* The functions applied: one call per step *)

NoHintCall == [called |-> FALSE, score |-> SliderDefault, note |-> <<>>, text |-> <<>>]
NoInfoCall == [called |-> FALSE, fn |-> "none", score |-> SliderDefault,
               outcome |-> "none", emoji |-> "none", label |-> "none"]

InitFn ==
    /\ app = [s \in Sessions |-> "script"]
    /\ streak_run = NoStreakRun
    /\ probe \in [score : ProbeScores, note : Notes]
    /\ first_hint = [called |-> FALSE, text |-> <<>>]
    /\ ret_hint = NoHintCall
    /\ ret_info = NoInfoCall
    /\ AppInitial("", [s \in Sessions |-> "ann@example.org"])

\* hint = get_helpful_hint(score, note_text)
CallHelpfulHint(score, note_text) ==
    LET text == get_helpful_hint(score, note_text)
    IN  /\ ret_hint' = [called |-> TRUE, score |-> score, note |-> note_text, text |-> text]
        /\ first_hint' = IF ~first_hint.called /\ score = probe.score /\ note_text = probe.note
                         THEN [called |-> TRUE, text |-> text]
                         ELSE first_hint
        /\ UNCHANGED <<probe, ret_info, streak_run, appvars>>

\* emoji, label, _ = get_mood_info(mood_score): the function has no raise and
\* no range test, so every integer argument returns
CallGetMoodInfo ==
    LET r == get_mood_info(probe.score)
    IN  /\ ret_info' = [called |-> TRUE, fn |-> "get_mood_info", score |-> probe.score,
                        outcome |-> "returned", emoji |-> r.emoji, label |-> r.label]
        /\ UNCHANGED <<probe, first_hint, ret_hint, streak_run, appvars>>

\* emoji, label, color = get_mood_emoji_and_label(mood)
CallGetMoodEmojiAndLabel ==
    LET r == get_mood_emoji_and_label(probe.score)
    IN  /\ ret_info' = [called |-> TRUE, fn |-> "get_mood_emoji_and_label",
                        score |-> probe.score, outcome |-> "returned",
                        emoji |-> r.emoji, label |-> r.label]
        /\ UNCHANGED <<probe, first_hint, ret_hint, streak_run, appvars>>

\* calls on the probe, on the probe's note with every score, and on the
\* probe's score with every note
NextFn ==
    \/ \E score \in ProbeScores : CallHelpfulHint(score, probe.note)
    \/ \E note_text \in Notes : CallHelpfulHint(probe.score, note_text)
    \/ CallGetMoodInfo
    \/ CallGetMoodEmojiAndLabel

SpecFn == InitFn /\ [][NextFn]_vars

----------------------------------------------------------------------------
(* The streak of tab_trends and of DataManager.calculate_stats, statement  *)
(* by statement, on the dates of a loaded list of entries                  *)

\* the days the entries of a list may have: some before today, today, and
\* the day after
EntryDays == (Today - MaxEntries)..(Today + 1)

\* the lists of entry dates, in any order and with repeated days
EntryLists == UNION {[1..n -> EntryDays] : n \in 0..MaxEntries}

\* a step back that skips a day
TwoDaysBack(d) == d - 2

\* current_date - timedelta(days=1)
PreviousDay(d) == d - 1

InitStreak ==
    /\ app = [s \in Sessions |-> "script"]
    /\ probe = [score |-> SliderDefault, note |-> <<>>]
    /\ first_hint = [called |-> FALSE, text |-> <<>>]
    /\ ret_hint = NoHintCall
    /\ ret_info = NoInfoCall
    /\ streak_run \in {[NoStreakRun EXCEPT !.pc = "start", !.data = data] :
                           data \in EntryLists}
    /\ AppInitial("", [s \in Sessions |-> "ann@example.org"])

\* if not data: the streak is 0 (calculate_stats returns it, tab_trends
\* shows no metric)
StreakNoData ==
    /\ streak_run.pc = "start"
    /\ streak_run.data = <<>>
    /\ streak_run' = [streak_run EXCEPT !.pc = "done", !.streak = 0]
    /\ UNCHANGED <<probe, first_hint, ret_hint, ret_info, appvars>>

\* dates = sorted([entry['date'] for entry in data]); streak = 0;
\* current_date = date.today()
StreakStart ==
    /\ streak_run.pc = "start"
    /\ streak_run.data # <<>>
    /\ streak_run' = [streak_run EXCEPT
                         !.pc = "while",
                         !.dates = SortSeq(streak_run.data, LAMBDA a, b : a < b),
                         !.streak = 0,
                         !.current_date = Today]
    /\ UNCHANGED <<probe, first_hint, ret_hint, ret_info, appvars>>

\* while current_date in dates: streak += 1; current_date -= one day
StreakStep ==
    /\ streak_run.pc = "while"
    /\ \E i \in 1..Len(streak_run.dates) : streak_run.dates[i] = streak_run.current_date
    /\ streak_run' = [streak_run EXCEPT
                         !.streak = streak_run.streak + 1,
                         !.current_date = PreviousDay(streak_run.current_date)]
    /\ UNCHANGED <<probe, first_hint, ret_hint, ret_info, appvars>>

\* the test of the while fails: the loop is left with the streak
StreakExit ==
    /\ streak_run.pc = "while"
    /\ \A i \in 1..Len(streak_run.dates) : streak_run.dates[i] # streak_run.current_date
    /\ streak_run' = [streak_run EXCEPT !.pc = "done"]
    /\ UNCHANGED <<probe, first_hint, ret_hint, ret_info, appvars>>

NextStreak ==
    \/ StreakNoData
    \/ StreakStart
    \/ StreakStep
    \/ StreakExit

\* the computation is a stretch of straight-line code of one run: once
\* started it goes on while it has a step to take
SpecStreak == InitStreak /\ [][NextStreak]_vars /\ WF_vars(NextStreak)

----------------------------------------------------------------------------
(* The check-in tab: one user interaction and the script runs it causes *)

\* a slider that passes on whatever position it is given
st_slider_free(min_value, max_value, position) == position

\* st.slider(label, min_value, max_value, value): the handle stays on the
\* track, so the widget returns an integer of min_value..max_value
st_slider(min_value, max_value, position) ==
    IF position < min_value THEN min_value
    ELSE IF position > max_value THEN max_value
    ELSE position

\* load_config_from_supabase(user_email)["theme"]
load_config_from_supabase(user) ==
    LET data == {c \in user_configs : c.user_email = user}
    IN  IF data # {} THEN (CHOOSE c \in data : TRUE).theme ELSE DefaultTheme

\* a run that goes on to the loads whoever is or is not logged in
RunTopOpen(s) ==
    /\ app[s] = "script"
    /\ accessed_as' = accessed_as \cup {user_email[s]}
    /\ current_theme' = [current_theme EXCEPT ![s] = load_config_from_supabase(user_email[s])]

\* lines 28-39 and 618-627 of a run: it passes the login gate only when a
\* user is logged in, then loads the user's entries and configuration and
\* takes the theme from the configuration
RunTop(s) ==
    /\ app[s] = "script"
    /\ user_email[s] # ""
    /\ accessed_as' = accessed_as \cup {user_email[s]}
    /\ current_theme' = [current_theme EXCEPT ![s] = load_config_from_supabase(user_email[s])]

\* what st.text_input returns for the additional-tags field in a run where
\* nothing is typed: the text the field holds while its value argument is
\* the one it was last shown with, and the new value once that has changed
st_text_input(s, value) ==
    IF value = manual_tags_value[s] THEN manual_tags[s] ELSE value

\* set([t.strip() for t in manual_tags.split(",") if t.strip()])
new_tags(text) == {ManualTagList(text)[i] : i \in 1..Len(ManualTagList(text))}

\* lines 789-798 of a run that starts with the selected tags  tags  and
\* whose field returns  text : a non-empty text replaces the selected tags
\* by its labels, an empty one leaves them
RunTags(s, tags, text) ==
    /\ manual_tags_value' = [manual_tags_value EXCEPT ![s] = ManualTagsDefault(tags)]
    /\ manual_tags' = [manual_tags EXCEPT ![s] = text]
    /\ selected_tags' = [selected_tags EXCEPT ![s] =
                            IF text # <<>> THEN new_tags(text) ELSE tags]

\* the same lines when nothing is typed into the field
ShowTags(s, tags) == RunTags(s, tags, st_text_input(s, ManualTagsDefault(tags)))

\* a run in which no save is called
NoSave(s) ==
    /\ save_result' = [save_result EXCEPT ![s] = "none"]
    /\ response' = [response EXCEPT ![s] = "none"]
    /\ UNCHANGED <<pc, pending>>

\* a run that reports nothing, saves nothing and leaves the sidebar and the
\* chat alone
PlainRun(s) ==
    /\ RunTop(s)
    /\ NoSave(s)
    /\ messages' = [messages EXCEPT ![s] = {}]
    /\ UNCHANGED <<request, chatvars, user_configs>>

\* a save that reports success whatever happened
SaveResultAlways(completed) == "True"

\* return True / except ...: return False
SaveResult(completed) == IF completed THEN "True" ELSE "False"

\* a test that lets every run call the provider
DebounceOff(s) == TRUE

\* current_time - st.session_state.last_ai_call > 2
DebounceElapsed(s) == now - last_ai_call[s] > DebounceSeconds

\* lines 803-829 of a run that shows mood m and note n: the hint, and the
\* debounced AI suggestion when a key is configured
RunCheckin(s, m, n, outcome) ==
    LET call == api_key # "" /\ DebounceElapsed(s)
        text == get_ai_suggestion(m, n, api_key, outcome)
    IN  /\ hint' = [hint EXCEPT ![s] = get_helpful_hint(m, n)]
        /\ last_ai_call' = IF call THEN [last_ai_call EXCEPT ![s] = now] ELSE last_ai_call
        /\ current_ai_suggestion' =
              IF call THEN [current_ai_suggestion EXCEPT ![s] = text]
              ELSE current_ai_suggestion
        /\ ai_request' =
              IF call THEN [ai_request EXCEPT ![s] =
                              [made |-> TRUE, score |-> m, note |-> n, outcome |-> outcome,
                               at |-> now]]
              ELSE ai_request
        /\ ai_suggestion' =
              [ai_suggestion EXCEPT ![s] =
                  IF api_key = "" THEN <<>>
                  ELSE IF call THEN text ELSE current_ai_suggestion[s]]
        /\ ai_cached' = [ai_cached EXCEPT ![s] = api_key # "" /\ ~call]

\* the slider is moved: the first run stores mood_value and reruns, the
\* second run goes through the tab
MoveSlider(s, v, outcome) ==
    LET value == st_slider(SliderMin, SliderMax, v)
    IN  /\ pc[s] = "idle"
        /\ value # mood[s]
        /\ mood' = [mood EXCEPT ![s] = value]
        /\ mood_value' = [mood_value EXCEPT ![s] = value]
        /\ PlainRun(s)
        /\ ShowTags(s, selected_tags[s])
        /\ RunCheckin(s, value, note[s], outcome)
        /\ UNCHANGED <<fnvars, storevars, now, api_key, app, user_email, note, selected_date>>

\* the note is edited
EditNote(s, n, outcome) ==
    /\ pc[s] = "idle"
    /\ n # note[s]
    /\ note' = [note EXCEPT ![s] = n]
    /\ PlainRun(s)
    /\ ShowTags(s, selected_tags[s])
    /\ RunCheckin(s, mood[s], n, outcome)
    /\ UNCHANGED <<fnvars, storevars, now, api_key, app, user_email, mood, mood_value,
                   selected_date>>

\* another check-in date is picked
PickDate(s, d, outcome) ==
    /\ pc[s] = "idle"
    /\ d # selected_date[s]
    /\ selected_date' = [selected_date EXCEPT ![s] = d]
    /\ PlainRun(s)
    /\ ShowTags(s, selected_tags[s])
    /\ RunCheckin(s, mood[s], note[s], outcome)
    /\ UNCHANGED <<fnvars, storevars, now, api_key, app, user_email, mood, mood_value,
                   note>>

\* a quick-tag button is pressed: the tag is toggled and the script reruns
ToggleTag(s, tag, outcome) ==
    /\ pc[s] = "idle"
    /\ ShowTags(s, IF tag \in selected_tags[s]
                    THEN selected_tags[s] \ {tag}
                    ELSE selected_tags[s] \cup {tag})
    /\ PlainRun(s)
    /\ RunCheckin(s, mood[s], note[s], outcome)
    /\ UNCHANGED <<fnvars, storevars, now, api_key, app, user_email, mood, mood_value,
                   note, selected_date>>

\* the additional-tags field is edited, or emptied
TypeManualTags(s, text, outcome) ==
    /\ pc[s] = "idle"
    /\ text # st_text_input(s, ManualTagsDefault(selected_tags[s]))
    /\ RunTags(s, selected_tags[s], text)
    /\ PlainRun(s)
    /\ RunCheckin(s, mood[s], note[s], outcome)
    /\ UNCHANGED <<fnvars, storevars, now, api_key, app, user_email, mood, mood_value,
                   note, selected_date>>

\* a submit branch that leaves the selected tags alone
KeepTags(s) == UNCHANGED selected_tags

\* st.session_state.selected_tags = set()
ResetTags(s) == selected_tags' = [selected_tags EXCEPT ![s] = {}]

\* new_entry of the Submit Check-in branch, built after the run's hint and
\* suggestion: primed values are those of this run
NewEntry(s) ==
    [date |-> selected_date[s],
     mood_score |-> mood[s],
     note |-> note[s],
     tags |-> manual_tags'[s],
     ai_suggestion |-> current_ai_suggestion'[s],
     helpful_hint |-> hint'[s],
     timestamp |-> IsoFormat(now)]

\* Submit Check-in is pressed: the run reaches save_data_to_supabase, whose
\* existence select either answers or raises (then the save returns False
\* and the run ends with the error message)
SubmitSelect(s, outcome, db_ok) ==
    /\ pc[s] = "idle"
    /\ RunTop(s)
    /\ ShowTags(s, selected_tags[s])
    /\ RunCheckin(s, mood[s], note[s], outcome)
    /\ LET e == SupabaseEntry(user_email[s], NewEntry(s))
       IN  IF db_ok
           THEN /\ pc' = [pc EXCEPT ![s] = "selected"]
                /\ pending' = [pending EXCEPT ![s] =
                      [entry |-> e,
                       existing |-> SelectExisting(mood_entries, e.user_email, e.date) # {}]]
                /\ messages' = [messages EXCEPT ![s] = {}]
                /\ save_result' = [save_result EXCEPT ![s] = "none"]
                /\ response' = [response EXCEPT ![s] = "none"]
           ELSE /\ save_result' = [save_result EXCEPT ![s] = SaveResult(FALSE)]
                /\ response' = [response EXCEPT ![s] = "none"]
                /\ messages' = [messages EXCEPT ![s] = {SaveErrorMessage, FailedMessage}]
                /\ UNCHANGED <<pc, pending>>
    /\ UNCHANGED <<fnvars, storevars, now, api_key, app, user_email, mood, mood_value, note,
                   selected_date, request, chatvars, user_configs>>

\* the save goes on after the select: update when a row was found, insert
\* otherwise. A write that raises makes the save return False; after a
\* save that returned True the tags are reset and the script reruns
SubmitWrite(s, outcome, db_ok) ==
    /\ pc[s] = "selected"
    /\ pc' = [pc EXCEPT ![s] = "idle"]
    /\ pending' = [pending EXCEPT ![s] = NoPending]
    /\ IF db_ok
       THEN /\ IF pending[s].existing
               THEN /\ mood_entries' = UpdateRows(mood_entries, pending[s].entry)
                    /\ response' = [response EXCEPT ![s] = "update"]
                    /\ UNCHANGED next_id
               ELSE /\ mood_entries' = InsertRow(mood_entries, next_id, pending[s].entry)
                    /\ response' = [response EXCEPT ![s] = "insert"]
                    /\ next_id' = next_id + 1
            /\ save_result' = [save_result EXCEPT ![s] = SaveResult(TRUE)]
            /\ messages' = [messages EXCEPT ![s] = {SuccessMessage}]
            /\ ResetTags(s)
            /\ RunTop(s)
            /\ ShowTags(s, selected_tags'[s])
            /\ RunCheckin(s, mood[s], note[s], outcome)
       ELSE /\ save_result' = [save_result EXCEPT ![s] = SaveResult(FALSE)]
            /\ response' = [response EXCEPT ![s] = "none"]
            /\ messages' = [messages EXCEPT ![s] = {SaveErrorMessage, FailedMessage}]
            /\ UNCHANGED <<storevars, selected_tags, manual_tags, manual_tags_value, aivars,
                           current_theme, accessed_as>>
    /\ UNCHANGED <<fnvars, now, api_key, app, user_email, mood, mood_value, note, selected_date,
                   request, chatvars, user_configs>>

\* a second passes
Tick ==
    /\ now < MaxTime
    /\ now' = now + 1
    /\ UNCHANGED <<fnvars, storevars, api_key, app, user_email, widgetvars, aivars, savevars,
                   mainvars, chatvars, themevars, runvars>>

----------------------------------------------------------------------------
(* The login gate, the sidebar and the other tabs of the authenticated script *)

\* a run while nobody is logged in: show_login() and st.stop()
ShowLogin(s) ==
    /\ app[s] = "script"
    /\ user_email[s] = ""
    /\ pc[s] = "idle"
    /\ messages' = [messages EXCEPT ![s] = {LoginScreen}]
    /\ UNCHANGED <<fnvars, storevars, now, api_key, app, user_email, widgetvars, aivars,
                   savevars, mainvars, chatvars, themevars, accessed_as>>

\* the user signs in and the script runs for them
Login(s, user, outcome) ==
    /\ app[s] = "script"
    /\ user_email[s] = ""
    /\ pc[s] = "idle"
    /\ user_email' = [user_email EXCEPT ![s] = user]
    /\ accessed_as' = accessed_as \cup {user}
    /\ current_theme' = [current_theme EXCEPT ![s] = load_config_from_supabase(user)]
    /\ NoSave(s)
    /\ messages' = [messages EXCEPT ![s] = {}]
    /\ ShowTags(s, selected_tags[s])
    /\ RunCheckin(s, mood[s], note[s], outcome)
    /\ UNCHANGED <<fnvars, storevars, now, api_key, app, mood, mood_value, note, selected_date, request, chatvars,
                   user_configs>>

\* Log out is pressed: st.logout() and a rerun, which stops at the gate
Logout(s) ==
    /\ app[s] = "script"
    /\ user_email[s] # ""
    /\ pc[s] = "idle"
    /\ user_email' = [user_email EXCEPT ![s] = ""]
    /\ NoSave(s)
    /\ messages' = [messages EXCEPT ![s] = {LoginScreen}]
    /\ UNCHANGED <<fnvars, storevars, now, api_key, app, widgetvars, aivars, mainvars,
                   chatvars, themevars, accessed_as>>

\* save_config_to_supabase(user_email, config) with config["theme"] = theme
save_config_to_supabase(user, theme) ==
    IF \E c \in user_configs : c.user_email = user
    THEN {IF c.user_email = user THEN [user_email |-> user, theme |-> theme] ELSE c :
             c \in user_configs}
    ELSE user_configs \cup {[user_email |-> user, theme |-> theme]}

\* another theme is picked in the sidebar: it is saved with the user's
\* configuration and the script reruns, through all its tabs
ChangeTheme(s, theme, outcome) ==
    /\ app[s] = "script"
    /\ user_email[s] # ""
    /\ pc[s] = "idle"
    /\ theme # load_config_from_supabase(user_email[s])
    /\ accessed_as' = accessed_as \cup {user_email[s]}
    /\ user_configs' = save_config_to_supabase(user_email[s], theme)
    /\ current_theme' = [current_theme EXCEPT ![s] = theme]
    /\ NoSave(s)
    /\ messages' = [messages EXCEPT ![s] = {}]
    /\ ShowTags(s, selected_tags[s])
    /\ RunCheckin(s, mood[s], note[s], outcome)
    /\ UNCHANGED <<fnvars, storevars, now, api_key, app, user_email, mood, mood_value, note, selected_date, request,
                   chatvars>>

\* the hints are searched or the trends are looked at: a run that shows
\* the loaded entries
ViewTab(s, outcome) ==
    /\ pc[s] = "idle"
    /\ PlainRun(s)
    /\ ShowTags(s, selected_tags[s])
    /\ RunCheckin(s, mood[s], note[s], outcome)
    /\ UNCHANGED <<fnvars, storevars, now, api_key, app, user_email, mood, mood_value, note, selected_date>>

\* the answer of the chat completion to the history sent
ChatReply(history) == <<"Reply to: ">> \o history[Len(history)].content

\* a message is sent in the chat tab: it is appended, the provider is
\* asked with timeout=30, and its answer is appended when the status is 200
SendChat(s, prompt, chat_outcome, outcome) ==
    /\ pc[s] = "idle"
    /\ api_key # ""
    /\ Len(chat_history[s]) < MaxChat
    /\ RunTop(s)
    /\ NoSave(s)
    /\ ShowTags(s, selected_tags[s])
    /\ RunCheckin(s, mood[s], note[s], outcome)
    /\ LET sent == Append(chat_history[s], [role |-> "user", content |-> prompt])
       IN  IF chat_outcome = "200"
           THEN /\ chat_history' = [chat_history EXCEPT ![s] =
                                       Append(sent, [role |-> "assistant",
                                                     content |-> ChatReply(sent)])]
                /\ messages' = [messages EXCEPT ![s] = {}]
           ELSE /\ chat_history' = [chat_history EXCEPT ![s] = sent]
                /\ messages' = [messages EXCEPT ![s] =
                                   IF chat_outcome = "500" THEN {ChatErrorStatus}
                                   ELSE {ChatErrorRaised}]
    /\ UNCHANGED <<fnvars, storevars, now, api_key, app, user_email, mood, mood_value, note, selected_date, request,
                   user_configs>>

\* Clear Chat is pressed: the history is emptied and the script reruns
ClearChat(s, outcome) ==
    /\ pc[s] = "idle"
    /\ api_key # ""
    /\ chat_history' = [chat_history EXCEPT ![s] = <<>>]
    /\ RunTop(s)
    /\ NoSave(s)
    /\ messages' = [messages EXCEPT ![s] = {}]
    /\ ShowTags(s, selected_tags[s])
    /\ RunCheckin(s, mood[s], note[s], outcome)
    /\ UNCHANGED <<fnvars, storevars, now, api_key, app, user_email, mood, mood_value, note, selected_date, request,
                   user_configs>>

----------------------------------------------------------------------------
(* main(): the sidebar and the check-in page of render_main_content *)

\* lines 1761-1767: without an email the page warns and returns, with one
\* it loads the user's entries
MainTop(s, email) ==
    /\ app[s] = "main"
    /\ accessed_as' = IF email = "" THEN accessed_as ELSE accessed_as \cup {email}

\* a run of main() in which Submit is not pressed
MainRun(s, email) ==
    /\ MainTop(s, email)
    /\ NoSave(s)
    /\ messages' = [messages EXCEPT ![s] = IF email = "" THEN {EmailWarning} ELSE {}]

\* the email field of the sidebar is edited
EnterEmail(s, email) ==
    /\ pc[s] = "idle"
    /\ email # user_email[s]
    /\ user_email' = [user_email EXCEPT ![s] = email]
    /\ MainRun(s, email)
    /\ UNCHANGED <<fnvars, storevars, now, api_key, app, widgetvars, aivars,
                   mainvars, chatvars, themevars>>

\* another theme is picked in main()'s sidebar: it is kept in the session
\* and the script reruns
ChangeThemeMain(s, theme) ==
    /\ pc[s] = "idle"
    /\ theme # current_theme[s]
    /\ current_theme' = [current_theme EXCEPT ![s] = theme]
    /\ MainRun(s, user_email[s])
    /\ UNCHANGED <<fnvars, storevars, now, api_key, app, user_email, widgetvars, aivars,
                   mainvars, chatvars, user_configs>>

\* the slider of the page is moved
MoveSliderMain(s, v) ==
    /\ pc[s] = "idle"
    /\ user_email[s] # ""
    /\ st_slider(SliderMin, SliderMax, v) # mood[s]
    /\ mood' = [mood EXCEPT ![s] = st_slider(SliderMin, SliderMax, v)]
    /\ MainRun(s, user_email[s])
    /\ UNCHANGED <<fnvars, storevars, now, api_key, app, user_email, mood_value, note,
                   selected_date, selected_tags, aivars, mainvars, chatvars,
                   themevars>>

\* a quick-tag button of the page is pressed: _toggle_tag and a rerun
ToggleTagMain(s, tag) ==
    /\ pc[s] = "idle"
    /\ user_email[s] # ""
    /\ selected_tags' = [selected_tags EXCEPT ![s] =
                            IF tag \in selected_tags[s]
                            THEN selected_tags[s] \ {tag}
                            ELSE selected_tags[s] \cup {tag}]
    /\ MainRun(s, user_email[s])
    /\ UNCHANGED <<fnvars, storevars, now, api_key, app, user_email, mood, mood_value, note,
                   selected_date, aivars, mainvars, chatvars, themevars>>

\* the additional-tags field of the page is edited
TypeTags(s, text) ==
    /\ pc[s] = "idle"
    /\ user_email[s] # ""
    /\ text # manual_tags[s]
    /\ manual_tags' = [manual_tags EXCEPT ![s] = text]
    /\ MainRun(s, user_email[s])
    /\ UNCHANGED <<fnvars, storevars, now, api_key, app, user_email, widgetvars, aivars,
                   manual_tags_value, request, chatvars, themevars>>

\* entry_data of the page's Submit branch
EntryData(s, text) ==
    [date |-> Today,
     mood_score |-> mood[s],
     note |-> note[s],
     tags |-> AllTags(selected_tags[s], manual_tags[s]),
     ai_suggestion |-> text,
     helpful_hint |-> <<>>,
     timestamp |-> IsoFormat(now)]

\* Submit Check-in is pressed on the page: the run builds all_tags and
\* get_ai_suggestion posts its request, with no timeout argument; without
\* a key no request is made
SubmitMainCall(s, reply) ==
    /\ pc[s] = "idle"
    /\ user_email[s] # ""
    /\ MainTop(s, user_email[s])
    /\ messages' = [messages EXCEPT ![s] = {}]
    /\ pc' = [pc EXCEPT ![s] = "calling"]
    /\ request' = [request EXCEPT ![s] =
                      IF api_key = "" THEN NoProviderRequest
                      ELSE [active |-> TRUE, timeout |-> "None", reply |-> reply]]
    /\ save_result' = [save_result EXCEPT ![s] = "none"]
    /\ response' = [response EXCEPT ![s] = "none"]
    /\ UNCHANGED <<fnvars, storevars, now, api_key, app, user_email, widgetvars, aivars,
                   pending, manual_tags, manual_tags_value, chatvars, themevars>>

\* requests.post has returned or raised (it does neither while the provider
\* stays silent), get_ai_suggestion returns, and save_entry makes its
\* existence select, which answers or raises
SubmitMainSelect(s, db_ok) ==
    /\ pc[s] = "calling"
    /\ request[s].active => request[s].reply # "silent" \/ request[s].timeout # "None"
    /\ LET text == get_ai_suggestion_main(mood[s], note[s],
                                          AllTags(selected_tags[s], manual_tags[s]),
                                          api_key, request[s].reply)
           e == SupabaseEntry(user_email[s], EntryData(s, text))
       IN  IF db_ok
           THEN /\ pc' = [pc EXCEPT ![s] = "main_selected"]
                /\ pending' = [pending EXCEPT ![s] =
                      [entry |-> e,
                       existing |-> SelectExisting(mood_entries, e.user_email, e.date) # {}]]
                /\ UNCHANGED <<save_result, response, messages>>
           ELSE /\ pc' = [pc EXCEPT ![s] = "idle"]
                /\ save_result' = [save_result EXCEPT ![s] = SaveResult(FALSE)]
                /\ response' = [response EXCEPT ![s] = "none"]
                /\ messages' = [messages EXCEPT ![s] = {SaveErrorMain, FailedMessage}]
                /\ UNCHANGED pending
    /\ request' = [request EXCEPT ![s] = NoProviderRequest]
    /\ UNCHANGED <<fnvars, storevars, now, api_key, app, user_email, widgetvars, aivars,
                   manual_tags, manual_tags_value, chatvars, themevars, accessed_as>>

\* save_entry goes on after the select: update or insert. After a save
\* that returned True the page reports it, clears the selected tags and
\* reruns; after one that returned False it reports the failure
SubmitMainWrite(s, db_ok) ==
    /\ pc[s] = "main_selected"
    /\ pc' = [pc EXCEPT ![s] = "idle"]
    /\ pending' = [pending EXCEPT ![s] = NoPending]
    /\ IF db_ok
       THEN /\ IF pending[s].existing
               THEN /\ mood_entries' = UpdateRows(mood_entries, pending[s].entry)
                    /\ response' = [response EXCEPT ![s] = "update"]
                    /\ UNCHANGED next_id
               ELSE /\ mood_entries' = InsertRow(mood_entries, next_id, pending[s].entry)
                    /\ response' = [response EXCEPT ![s] = "insert"]
                    /\ next_id' = next_id + 1
            /\ save_result' = [save_result EXCEPT ![s] = SaveResult(TRUE)]
            /\ messages' = [messages EXCEPT ![s] = {SuccessMessage}]
            /\ ResetTags(s)
            /\ MainTop(s, user_email[s])
       ELSE /\ save_result' = [save_result EXCEPT ![s] = SaveResult(FALSE)]
            /\ response' = [response EXCEPT ![s] = "none"]
            /\ messages' = [messages EXCEPT ![s] = {SaveErrorMain, FailedMessage}]
            /\ UNCHANGED <<storevars, selected_tags, accessed_as>>
    /\ UNCHANGED <<fnvars, now, api_key, app, user_email, mood, mood_value, note, selected_date,
                   aivars, mainvars, chatvars, themevars>>

----------------------------------------------------------------------------
(* One session on its own, with a key configured *)

InitSolo ==
    /\ FnInitial
    /\ app = [s \in Sessions |-> "script"]
    /\ AppInitial(ConfiguredKey, [s \in Sessions |-> "ann@example.org"])

NextSolo ==
    \/ \E v \in MoodSample, o \in ProviderOutcomes : MoveSlider("s1", v, o)
    \/ \E n \in NoteSample, o \in ProviderOutcomes : EditNote("s1", n, o)
    \/ \E t \in TagSample, o \in ProviderOutcomes : ToggleTag("s1", t, o)
    \/ \E o \in ProviderOutcomes, db_ok \in BOOLEAN : SubmitSelect("s1", o, db_ok)
    \/ \E o \in ProviderOutcomes, db_ok \in BOOLEAN : SubmitWrite("s1", o, db_ok)
    \/ Tick

SpecSolo == InitSolo /\ [][NextSolo]_vars

----------------------------------------------------------------------------
(* Several sessions whose runs interleave at the storage calls; no key *)

\* the first session is ann's, the second ann's or bob's
Init ==
    /\ FnInitial
    /\ app = [s \in Sessions |-> "script"]
    /\ \E u \in Users : AppInitial("", [s \in Sessions |-> IF s = "s1" THEN "ann@example.org" ELSE u])

Next ==
    \/ \E s \in Sessions, v \in MoodSample : MoveSlider(s, v, "200")
    \/ \E s \in Sessions, d \in Dates : PickDate(s, d, "200")
    \/ \E s \in Sessions, db_ok \in BOOLEAN : SubmitSelect(s, "200", db_ok)
    \/ \E s \in Sessions, db_ok \in BOOLEAN : SubmitWrite(s, "200", db_ok)

Spec == Init /\ [][Next]_vars

----------------------------------------------------------------------------
(* One session that runs either program: the authenticated script, with   *)
(* nobody logged in yet, or main(), with no email entered yet              *)

InitApps ==
    /\ FnInitial
    /\ app \in [Sessions -> {"script", "main"}]
    /\ app["s2"] = "script"
    /\ AppInitial(ConfiguredKey, [s \in Sessions |-> ""])

NextApps ==
    \/ ShowLogin("s1")
    \/ Login("s1", "ann@example.org", "200")
    \/ Logout("s1")
    \/ \E v \in DragSample : MoveSlider("s1", v, "200")
    \/ \E t \in TagSample : ToggleTag("s1", t, "200")
    \/ \E t \in ManualSample : TypeManualTags("s1", t, "200")
    \/ \E d \in Dates : PickDate("s1", d, "200")
    \/ \E t \in Themes : ChangeTheme("s1", t, "200")
    \/ ViewTab("s1", "200")
    \/ \E p \in PromptSample, o \in ProviderOutcomes : SendChat("s1", p, o, "200")
    \/ ClearChat("s1", "200")
    \/ \E db_ok \in BOOLEAN : SubmitSelect("s1", "200", db_ok)
    \/ \E db_ok \in BOOLEAN : SubmitWrite("s1", "200", db_ok)
    \/ \E e \in Users \cup {""} : EnterEmail("s1", e)
    \/ \E t \in Themes : ChangeThemeMain("s1", t)
    \/ \E v \in DragSample : MoveSliderMain("s1", v)
    \/ \E t \in TagSample : ToggleTagMain("s1", t)
    \/ \E t \in ManualSample : TypeTags("s1", t)
    \/ \E r \in ProviderReplies : SubmitMainCall("s1", r)
    \/ \E db_ok \in BOOLEAN : SubmitMainSelect("s1", db_ok)
    \/ \E db_ok \in BOOLEAN : SubmitMainWrite("s1", db_ok)

SpecApps == InitApps /\ [][NextApps]_vars

----------------------------------------------------------------------------
(* Properties of the classifiers and of the hint selector, under SpecFn *)

IsInfoCall(fn) == ret_info.called /\ ret_info.fn = fn

\* the five buckets of the score domain
Bucket(score) ==
    CASE score \in 0..2 -> "very_low"
      [] score \in 3..4 -> "low"
      [] score \in 5..6 -> "neutral"
      [] score \in 7..8 -> "good"
      [] score \in 9..10 -> "great"

\* C3: for every integer score in 0..10 get_mood_info returns exactly one of
\* five labels, by the contiguous ranges 0-2 Very Low, 3-4 Low, 5-6 Neutral,
\* 7-8 Good, 9-10 Great.
C3_Partition ==
    (IsInfoCall("get_mood_info") /\ ret_info.score \in Scores) =>
        /\ ret_info.outcome = "returned"
        /\ ret_info.label = (CASE Bucket(ret_info.score) = "very_low" -> "Very Low"
                               [] Bucket(ret_info.score) = "low" -> "Low"
                               [] Bucket(ret_info.score) = "neutral" -> "Neutral"
                               [] Bucket(ret_info.score) = "good" -> "Good"
                               [] Bucket(ret_info.score) = "great" -> "Great")

\* get_mood_info was called at the boundary 2/3 on its upper side
C3_Witness ==
    IsInfoCall("get_mood_info") /\ ret_info.score = 3 /\ ret_info.label = "Low"

\* C4: classifying a score outside [0, 10] fails with InvalidScore and never
\* maps the score to a bucket.
C4_InvalidScore ==
    (ret_info.called /\ ret_info.score \notin Scores) =>
        ret_info.outcome = "InvalidScore"

\* the self-harm phrases of the claim; the source holds no such list
CrisisPhrases == {"end it all"}

HasCrisisKeyword(note_text) ==
    \E i \in DOMAIN note_text : Lower(note_text[i]) \in CrisisPhrases

\* C5: every hint call whose note holds a crisis keyword returns one fixed
\* message, whatever the score and whatever else the note holds.
C5_CrisisFixedMessage ==
    (/\ first_hint.called /\ HasCrisisKeyword(probe.note)
     /\ ret_hint.called /\ HasCrisisKeyword(ret_hint.note)) =>
        ret_hint.text = first_hint.text

\* the three score tiers of get_helpful_hint
Tier(score) ==
    CASE score \in 0..3 -> "heavy"
      [] score \in 4..5 -> "low_energy"
      [] score \in 6..10 -> "positive"

EmptyNotePair ==
    /\ first_hint.called /\ probe.note = <<>> /\ probe.score \in Scores
    /\ ret_hint.called /\ ret_hint.note = <<>> /\ ret_hint.score \in Scores

MatchesGroup1(note_text) == AnyWordIn(HintGroup1, NoteLower(note_text))
MatchesGroup2(note_text) == AnyWordIn(HintGroup2, NoteLower(note_text))
MatchesNone(note_text) == ~MatchesGroup1(note_text) /\ ~MatchesGroup2(note_text)

\* C8: a note with keywords of both groups gets the hint of the first group
\* for every score, and two notes without any keyword get the same hint for
\* the same score.
C8_FirstMatchWins ==
    /\ (ret_hint.called /\ MatchesGroup1(ret_hint.note) /\ MatchesGroup2(ret_hint.note)) =>
            ret_hint.text = HintHeavy
    /\ (/\ first_hint.called /\ MatchesNone(probe.note)
        /\ ret_hint.called /\ MatchesNone(ret_hint.note)
        /\ ret_hint.score = probe.score) =>
            ret_hint.text = first_hint.text

\* a good score with a note of both groups, and two different keyword-free
\* notes with one score
C8_Witness ==
    /\ ret_hint.called /\ ret_hint.score = SliderMax
    /\ MatchesGroup1(ret_hint.note) /\ MatchesGroup2(ret_hint.note)
    /\ ret_hint.text = HintHeavy

----------------------------------------------------------------------------
(* Properties of the check-in submission and of the AI suggestion *)

RowsFor(rows, user, date_str) == {r \in rows : r.user_email = user /\ r.date = date_str}

SameValues(r, e) ==
    /\ r.mood_score = e.mood_score /\ r.note = e.note /\ r.tags = e.tags
    /\ r.ai_suggestion = e.ai_suggestion /\ r.helpful_hint = e.helpful_hint
    /\ r.timestamp = e.timestamp

\* C1: when one session's saves run one after the other, the entry a
\* submission builds holds the values on the form, and a save that returned
\* True leaves exactly one row for the entry's (user, date), holding the
\* values of that submission: a second submission for the date replaces the
\* first.
C1_Upsert ==
    [][\A s \in Sessions :
          /\ (pc[s] = "idle" /\ pc'[s] = "selected") =>
                LET e == pending'[s].entry
                IN  /\ e.user_email = user_email[s] /\ e.date = DateStr(selected_date[s])
                    /\ e.mood_score = mood[s] /\ e.note = note[s]
                    /\ e.tags = ManualTagsDefault(selected_tags[s])
                    /\ e.ai_suggestion = current_ai_suggestion'[s]
                    /\ e.helpful_hint = hint'[s]
                    /\ e.timestamp = IsoFormat(now)
          /\ (pc[s] = "selected" /\ pc'[s] = "idle" /\ save_result'[s] = "True") =>
                LET e == pending[s].entry
                    stored == RowsFor(mood_entries', e.user_email, e.date)
                IN  /\ Cardinality(stored) = 1
                    /\ \A r \in stored : SameValues(r, e)]_vars

\* a second submission for the date, made later with another score and
\* another note, has replaced the first
C1_Witness ==
    /\ response["s1"] = "update" /\ save_result["s1"] = "True"
    /\ next_id = 2
    /\ \E r \in mood_entries :
          /\ r.id = 1 /\ r.mood_score = SliderMax - 1 /\ r.note = <<"Panicky">>
          /\ r.timestamp = IsoFormat(MaxTime)

\* C2: the table holds at most one row per (user, date), also when the
\* saves of two sessions of one user interleave at their storage calls.
C2_AtMostOnePerDay ==
    \A r1, r2 \in mood_entries :
        (r1.user_email = r2.user_email /\ r1.date = r2.date) => r1 = r2

\* the only static per-score text of the source stands for the fallback
StaticFallback(score) == get_helpful_hint(score, <<>>)

\* C6: after a provider call that raised, timed out or answered another
\* status than 200, the suggestion kept for display and for the entry is the
\* static fallback message of the score's bucket.
C6_StaticFallback ==
    \A s \in Sessions :
        (ai_request[s].made /\ ai_request[s].outcome # "200") =>
            current_ai_suggestion[s] = StaticFallback(ai_request[s].score)

\* C10: a suggestion taken from the session instead of a new call was made
\* for the mood bucket and the note the run shows.
C10_CacheKey ==
    \A s \in Sessions :
        (ai_cached[s] /\ ai_request[s].made) =>
            /\ Bucket(ai_request[s].score) = Bucket(mood[s])
            /\ ai_request[s].note = note[s]

----------------------------------------------------------------------------
(* Properties of the two programs, under SpecApps *)

\* C11: every call to the text-generation provider is bounded by a timeout,
\* so a request in flight always comes back to its caller: whenever a
\* request is waiting for the provider, the step in which requests.post
\* returns or raises can be taken.
C11_CallsBounded ==
    \A s \in Sessions :
        request[s].active => ENABLED (\E db_ok \in BOOLEAN : SubmitMainSelect(s, db_ok))

\* C12: the save reports its outcome as a value and never raises: a save
\* call returns True exactly when its existence select and its update or
\* insert both completed, and when it returns False the stored entries are
\* as they were before the call's failing step.
C12_SaveReports ==
    [][\A s \in Sessions :
          /\ save_result'[s] \in {"none", "True", "False"}
          /\ (save_result[s] = "none" /\ save_result'[s] # "none") =>
                /\ save_result'[s] = "True" <=>
                      /\ pc[s] \in {"selected", "main_selected"}
                      /\ response'[s] \in {"update", "insert"}
                      /\ mood_entries' \in {UpdateRows(mood_entries, pending[s].entry),
                                            InsertRow(mood_entries, next_id, pending[s].entry)}
                /\ save_result'[s] = "False" => mood_entries' = mood_entries]_vars

\* a save of the script and a save of main() that returned False at the
\* write, with rows stored before
C12_Witness ==
    /\ save_result["s1"] = "False"
    /\ messages["s1"] \in {{SaveErrorMessage, FailedMessage}, {SaveErrorMain, FailedMessage}}
    /\ mood_entries # {}

\* the rows stored for other (user, date) pairs than the entry's
OtherRows(rows, e) == {r \in rows : r.user_email # e.user_email \/ r.date # e.date}

\* C13: the stored mood entries change only in the write step of a
\* check-in submission (not when the slider is moved, tags are toggled or
\* typed, the theme is changed, chat messages are sent or cleared, or hints
\* and trends are viewed), and that step leaves the rows of every other
\* user and of every other date as they were.
C13_Frame ==
    [][mood_entries' # mood_entries =>
          \E s \in Sessions :
              /\ pc[s] \in {"selected", "main_selected"}
              /\ pc'[s] = "idle"
              /\ OtherRows(mood_entries', pending[s].entry)
                     = OtherRows(mood_entries, pending[s].entry)]_vars

\* a submission has overwritten one of two stored rows, in a session that
\* has also changed the theme and used the chat
C13_Witness ==
    /\ Cardinality(mood_entries) = 2
    /\ response["s1"] = "update"
    /\ chat_history["s1"] # <<>>
    /\ user_configs # {}

\* C14: every mood entry a check-in submission writes has an integer
\* mood_score of the closed range 0..10, and so has every entry a
\* submission is about to write.
C14_ScoreRange ==
    /\ \A r \in mood_entries : r.mood_score \in Scores
    /\ \A s \in Sessions :
          pc[s] \in {"selected", "main_selected"} => pending[s].entry.mood_score \in Scores

\* an entry is stored after the slider was dragged past the end of its track
C14_Witness ==
    \E r \in mood_entries : r.mood_score = SliderMax

\* the labels of a stored tags value: the items of main()'s list, or the
\* pieces between the ", " separators of the script's text
Labels(tags) == SelectSeq(tags, LAMBDA t : t \notin {",", " "})

\* C15: the tags stored with a mood entry form a set: no label occurs
\* twice in them, also when a label is both selected with a quick-tag
\* button and typed into the additional-tags field.
C15_TagsAreSet ==
    \A r \in mood_entries :
        \A i, j \in 1..Len(Labels(r.tags)) :
            i # j => Labels(r.tags)[i] # Labels(r.tags)[j]

\* what a run of the script past the login gate computes or changes
PastGate(s) ==
    <<hint[s], ai_suggestion[s], current_ai_suggestion[s], last_ai_call[s],
      chat_history[s], current_theme[s], selected_tags[s], mood[s], pc[s]>>

\* C16: nothing is loaded from or saved to the tables before a user is
\* identified: the tables are never read or written under an empty user,
\* a step after which nobody is logged in or has an email entered has
\* left the tables alone, and a run of the authenticated script for a
\* user who is not logged in does nothing that lies past the login gate.
C16_UserBeforeStore ==
    [][/\ "" \notin accessed_as'
       /\ (\A s \in Sessions : user_email'[s] = "") =>
             UNCHANGED <<mood_entries, user_configs, accessed_as>>
       /\ \A s \in Sessions :
             (app[s] = "script" /\ user_email[s] = "" /\ user_email'[s] = "") =>
                 PastGate(s)' = PastGate(s)]_vars

\* the login screen is shown to a session that has logged out, after
\* entries were loaded and saved for its user
C16_Witness ==
    /\ user_email["s1"] = ""
    /\ messages["s1"] = {LoginScreen}
    /\ accessed_as # {}
    /\ mood_entries # {}

----------------------------------------------------------------------------
(* Properties of the check-in tab's suggestion, under SpecSolo *)

\* C17: the entry a submission of the check-in tab stores carries the AI
\* suggestion that was generated for the submitted mood score and note,
\* and the helpful hint get_helpful_hint gives for that score and note.
C17_StoredSuggestion ==
    \A s \in Sessions :
        pc[s] = "selected" =>
            LET e == pending[s].entry
            IN  /\ e.helpful_hint = get_helpful_hint(e.mood_score, e.note)
                /\ ai_request[s].made
                /\ ai_request[s].score = e.mood_score
                /\ ai_request[s].note = e.note

\* C19: when a submission's save returns True the selected tags are reset
\* to empty and the success message is shown; when it returns False the
\* selected tags stay as they were and the failure message is shown
\* without the success message. In both programs.
C19_TagsAfterSave ==
    [][\A s \in Sessions :
          (save_result'[s] # "none" /\ (save_result[s] = "none" \/ pc'[s] # pc[s])) =>
              /\ save_result'[s] = "True" =>
                    /\ selected_tags'[s] = {}
                    /\ SuccessMessage \in messages'[s]
                    /\ FailedMessage \notin messages'[s]
              /\ save_result'[s] = "False" =>
                    /\ selected_tags'[s] = selected_tags[s]
                    /\ FailedMessage \in messages'[s]
                    /\ SuccessMessage \notin messages'[s]]_vars

\* a save has failed while a tag was selected: it is still selected and
\* the failure is what the page reports
C19_Witness ==
    /\ save_result["s1"] = "False"
    /\ selected_tags["s1"] # {}
    /\ FailedMessage \in messages["s1"]
    /\ SuccessMessage \notin messages["s1"]

\* C20: a session's chat history alternates user, assistant, user, ...:
\* the messages at odd positions are the user's and those at even
\* positions the assistant's, whatever was sent, whatever the provider
\* answered and whenever the chat was cleared.
C20_Alternation ==
    \A s \in Sessions :
        \A i \in 1..Len(chat_history[s]) :
            chat_history[s][i].role = IF i % 2 = 1 THEN "user" ELSE "assistant"

\* C21: after each run of the check-in tab the selected tags are the
\* labels of the additional-tags field, trimmed, without the empty ones;
\* an emptied field leaves no tag selected.
C21_TagsFollowField ==
    \A s \in Sessions :
        app[s] = "script" => selected_tags[s] = new_tags(manual_tags[s])

----------------------------------------------------------------------------
(* The streak, under SpecStreak *)

\* the days that have an entry in the list
EntryDates(data) == {data[i] : i \in 1..Len(data)}

\* the number of consecutive days ending at today that each have an entry
ConsecutiveDays(days) ==
    Cardinality({k \in 1..(MaxEntries + 1) : \A j \in 0..(k - 1) : (Today - j) \in days})

\* C23: the streak computed for a list of entries is the number of
\* consecutive calendar days ending at today that each have an entry: 0
\* when today has none, never more than the number of distinct entry
\* dates, and the computation ends for every list.
C23_Streak ==
    /\ [](streak_run.pc # "none" =>
             streak_run.streak <= Cardinality(EntryDates(streak_run.data)))
    /\ [](streak_run.pc = "done" =>
             /\ streak_run.streak = ConsecutiveDays(EntryDates(streak_run.data))
             /\ Today \notin EntryDates(streak_run.data) => streak_run.streak = 0)
    /\ <>(streak_run.pc = "done")

\* a list with today, yesterday and, after a gap, an earlier day: the
\* streak is 2 of the 3 days
C23_Witness ==
    /\ streak_run.pc = "done"
    /\ streak_run.streak = 2
    /\ EntryDates(streak_run.data) = {Today, Today - 1, Today - 3}

----------------------------------------------------------------------------
(* The two classifiers compared, under SpecFn *)

\* C24: get_mood_emoji_and_label and get_mood_info put the scores of 0..10
\* into the same buckets: the score just classified by one of them has the
\* same label as another score under that function exactly when the two
\* scores have the same label under the other function.
C24_SameBuckets ==
    (ret_info.called /\ ret_info.score \in Scores) =>
        LET other_fn(x) == IF ret_info.fn = "get_mood_info"
                           THEN get_mood_emoji_and_label(x)
                           ELSE get_mood_info(x)
            this_fn(x) == IF ret_info.fn = "get_mood_info"
                          THEN get_mood_info(x)
                          ELSE get_mood_emoji_and_label(x)
        IN  \A other \in Scores :
                (ret_info.label = this_fn(other).label)
                    <=> (other_fn(ret_info.score).label = other_fn(other).label)

----------------------------------------------------------------------------
(* Properties of the check-in tab's debounce, under SpecSolo *)

\* C18: the suggestion calls of the check-in tab are debounced: a run
\* calls the provider only when more than 2 seconds have passed since
\* last_ai_call, two calls of one session are more than 2 seconds apart,
\* and a run that makes no call shows the suggestion the session holds.
C18_Debounce ==
    [][\A s \in Sessions :
          /\ ai_request'[s] # ai_request[s] =>
                /\ now - last_ai_call[s] > DebounceSeconds
                /\ last_ai_call'[s] = now
                /\ ai_request[s].made => ai_request'[s].at - ai_request[s].at > DebounceSeconds
          /\ ai_cached'[s] =>
                /\ ai_request'[s] = ai_request[s]
                /\ current_ai_suggestion'[s] = current_ai_suggestion[s]
                /\ ai_suggestion'[s] = current_ai_suggestion[s]]_vars

\* a second call was made once the window had passed, and a later run
\* inside the new window reused its suggestion
C18_Witness ==
    /\ ai_request["s1"].at = Epoch + DebounceSeconds + 1
    /\ ai_cached["s1"]
    /\ ai_suggestion["s1"] = current_ai_suggestion["s1"]

====
